---- MODULE Spec2Model ----
(***************************************************************************)
(* Production Maestro Agent (src/main.py): the session state of the        *)
(* Streamlit script, its two button handlers, and the calculation          *)
(* functions they call.                                                    *)
(*                                                                         *)
(* A DataFrame is a sequence of rows (records); its positional order is    *)
(* the sequence order.  Floating-point values that are not integers (mean  *)
(* profit, profit per minute, additional profit) are exact rationals       *)
(* [num, den] in lowest terms with den > 0.                                *)
(***************************************************************************)
EXTENDS Integers, Sequences, FiniteSets, TLC

VARIABLES
    orders,              \* st.session_state.orders
    optimized_schedule,  \* st.session_state.optimized_schedule
    reasoning,           \* st.session_state.reasoning (Missing: key not set)
    history,             \* st.session_state.history
    clicked,             \* the button whose st.button() returned True in the last script run
    fn_in,               \* library harness: the batch handed to a function
    fn_pc,               \* library harness: which function was applied
    fn_out               \* library harness: what it returned

vars == <<orders, optimized_schedule, reasoning, history, clicked, fn_in, fn_pc, fn_out>>

----------------------------------------------------------------------------
(* Bounds *)

\* orders per generated batch (the script uses 10)
num_orders == 3
\* agent runs followed between two batch generations
MaxRuns == 2
\* longest batch handed to the library functions on their own
MaxLen == 3

----------------------------------------------------------------------------
(* Constants and sentinels *)

SETUP_TIME_MINS == 60

None == "None"
Missing == "Missing"

\* a session field that holds None or a DataFrame
NoneFrame == [is_none |-> TRUE, df |-> <<>>]
Frame(df) == [is_none |-> FALSE, df |-> df]

chassis_types == {"Gaming Tower", "Office Mini", "All-in-One"}

\* position of a chassis type in the lexicographic order of the strings,
\* which is the order sort_values compares them by
ChassisRank(c) ==
    CASE c = "All-in-One" -> 1
      [] c = "Gaming Tower" -> 2
      [] c = "Office Mini" -> 3

\* sampled results of random.randint(10, 50): both ends of the range
QuantityValues == {10, 50}

\* sampled results of the profit draw: the top of the Gaming Tower range,
\* the bottom of the range the other chassis share
ProfitValues(chassis) ==
    IF chassis = "Gaming Tower" THEN {400} ELSE {80}

----------------------------------------------------------------------------
(* Exact rational arithmetic *)

Abs(n) == IF n < 0 THEN -n ELSE n

RECURSIVE GCD(_, _)
GCD(a, b) == IF b = 0 THEN a ELSE GCD(b, a % b)

\* n / d for d # 0, in lowest terms with a positive denominator
Rat(n, d) ==
    LET g == GCD(Abs(n), Abs(d))
        s == IF d < 0 THEN -1 ELSE 1
    IN  [num |-> (s * n) \div g, den |-> (s * d) \div g]

RatOfInt(n) == [num |-> n, den |-> 1]
RatMul(a, b) == Rat(a.num * b.num, a.den * b.den)
RatDivInt(a, k) == Rat(a.num, a.den * k)
RatPositive(a) == a.num > 0
\* math.floor
RatFloor(a) == a.num \div a.den
\* int(): truncation toward zero
RatTrunc(a) == IF a.num >= 0 THEN a.num \div a.den ELSE -((-a.num) \div a.den)

----------------------------------------------------------------------------
(* Data simulation *)

\* one appended row of get_production_orders, for loop index i = pos - 1
OrderRow(pos, chassis, quantity, profit) ==
    [OrderID |-> "WO-0" \o ToString(pos),
     Chassis_Type |-> chassis,
     Quantity |-> quantity,
     Profit_Per_Unit |-> profit,
     Production_Time_Mins |-> quantity * 2]

\* the draws of one loop iteration
DrawChoices ==
    UNION {{[chassis |-> c, quantity |-> q, profit |-> p] :
              q \in QuantityValues, p \in ProfitValues(c)} : c \in chassis_types}

\* every DataFrame the loop can build in n iterations
OrderBatches(n) ==
    {[pos \in 1..n |->
        OrderRow(pos, d[pos].chassis, d[pos].quantity, d[pos].profit)] :
       d \in [1..n -> DrawChoices]}

get_production_orders == OrderBatches(num_orders)

----------------------------------------------------------------------------
(* Column aggregates *)

RECURSIVE SumColumn(_, _)
SumColumn(df, col) ==
    IF df = <<>> THEN 0 ELSE df[1][col] + SumColumn(Tail(df), col)

\* Series.mean() of a non-empty column
MeanColumn(df, col) == Rat(SumColumn(df, col), Len(df))

----------------------------------------------------------------------------
(* Agent and calculation logic *)

\* the same loop without the "last_chassis is not None" test
RECURSIVE SetupLoop_ChargeFirst(_, _, _, _)
SetupLoop_ChargeFirst(df, i, last_chassis, total_setup_time) ==
    IF i > Len(df) THEN total_setup_time
    ELSE SetupLoop_ChargeFirst(df, i + 1, df[i].Chassis_Type,
                   IF df[i].Chassis_Type # last_chassis
                   THEN total_setup_time + SETUP_TIME_MINS
                   ELSE total_setup_time)

\* the iterrows loop: rows i..Len(df) still to visit, last_chassis and
\* total_setup_time as the loop holds them
RECURSIVE SetupLoop(_, _, _, _)
SetupLoop(df, i, last_chassis, total_setup_time) ==
    IF i > Len(df) THEN total_setup_time
    ELSE SetupLoop(df, i + 1, df[i].Chassis_Type,
                   IF last_chassis # None /\ df[i].Chassis_Type # last_chassis
                   THEN total_setup_time + SETUP_TIME_MINS
                   ELSE total_setup_time)

calculate_schedule_metrics(schedule_df) ==
    LET total_production_time == SumColumn(schedule_df, "Production_Time_Mins")
        total_setup_time == SetupLoop(schedule_df, 1, None, 0)
    IN  [total_time |-> total_production_time + total_setup_time,
         setup_time |-> total_setup_time,
         production_time |-> total_production_time]

\* a merge that takes the right run's row when the keys tie
RECURSIVE Merge_RightOnTie(_, _)
Merge_RightOnTie(left, right) ==
    IF left = <<>> THEN right
    ELSE IF right = <<>> THEN left
    ELSE IF ChassisRank(left[1].Chassis_Type) < ChassisRank(right[1].Chassis_Type)
         THEN <<left[1]>> \o Merge_RightOnTie(Tail(left), right)
         ELSE <<right[1]>> \o Merge_RightOnTie(left, Tail(right))

\* the merge step of kind='mergesort': on equal keys the left run's row
\* goes first
RECURSIVE Merge(_, _)
Merge(left, right) ==
    IF left = <<>> THEN right
    ELSE IF right = <<>> THEN left
    ELSE IF ChassisRank(left[1].Chassis_Type) <= ChassisRank(right[1].Chassis_Type)
         THEN <<left[1]>> \o Merge(Tail(left), right)
         ELSE <<right[1]>> \o Merge(left, Tail(right))

\* df.sort_values(by='Chassis_Type', kind='mergesort').reset_index(drop=True)
RECURSIVE MergeSort(_)
MergeSort(df) ==
    IF Len(df) <= 1 THEN df
    ELSE LET mid == Len(df) \div 2
         IN  Merge(MergeSort(SubSeq(df, 1, mid)),
                   MergeSort(SubSeq(df, mid + 1, Len(df))))

ReasoningText ==
    "Agent analyzed all orders and identified **Chassis Type** as the primary driver of setup time. It has re-sequenced the queue to group similar chassis builds together, minimizing line changeovers."

\* the agent sorting by 'OrderID': the rows stay in generation order
run_maestro_agent_ByOrderID(df) ==
    [optimized_df |-> df, reasoning |-> ReasoningText]

run_maestro_agent(df) ==
    [optimized_df |-> MergeSort(df), reasoning |-> ReasoningText]

----------------------------------------------------------------------------
(* Impact calculations *)

\* the per-minute profit without the division by two
avg_profit_per_min_NoHalving(df) == MeanColumn(df, "Profit_Per_Unit")

avg_profit_per_min(df) == RatDivInt(MeanColumn(df, "Profit_Per_Unit"), 2)

\* the dictionary the run handler appends to the history
RunRecord(df, optimized_df, run_number) ==
    LET naive_metrics == calculate_schedule_metrics(df)
        optimized_metrics == calculate_schedule_metrics(optimized_df)
        time_saved == naive_metrics.total_time - optimized_metrics.total_time
        additional_profit == RatMul(RatOfInt(time_saved), avg_profit_per_min(df))
    IN  [Run |-> run_number,
         Time_Saved_Mins |-> time_saved,
         Additional_Profit |->
             IF RatPositive(additional_profit) THEN additional_profit ELSE RatOfInt(0)]

\* the latest-run analysis of the Tangible Benefit section.  With a zero
\* column sum the division yields no number: 0/0 raises ZeroDivisionError
\* on Python ints and gives NaN on numpy ints, and int(NaN) raises
\* ValueError on the next line.
TangibleBenefit(df, optimized_df) ==
    LET naive_metrics == calculate_schedule_metrics(df)
        optimized_metrics == calculate_schedule_metrics(optimized_df)
        time_saved == naive_metrics.total_time - optimized_metrics.total_time
        quantity_sum == SumColumn(df, "Quantity")
        production_sum == SumColumn(df, "Production_Time_Mins")
    IN  IF production_sum = 0
        THEN [status |-> "raised"]
        ELSE LET units_per_min == Rat(quantity_sum, production_sum)
                 additional_units == RatTrunc(RatMul(RatOfInt(time_saved), units_per_min))
                 avg_profit_per_unit == MeanColumn(df, "Profit_Per_Unit")
             IN  [status |-> "ok",
                  time_saved |-> time_saved,
                  units_per_min |-> units_per_min,
                  additional_units |-> additional_units,
                  additional_profit |->
                      RatMul(RatOfInt(additional_units), avg_profit_per_unit)]

----------------------------------------------------------------------------
(* Session: first load and the two button handlers *)

\* the "if 'orders' not in st.session_state" block of the first script run
FirstLoad(batch) ==
    /\ orders = batch
    /\ optimized_schedule = NoneFrame
    /\ reasoning = Missing
    /\ history = <<>>
    /\ clicked = None

FnIdle ==
    /\ fn_in = <<>>
    /\ fn_pc = "idle"
    /\ fn_out = None

Init ==
    /\ \E batch \in get_production_orders : FirstLoad(batch)
    /\ FnIdle

\* the run handler with the history entry numbered len(history)
RunAgent_NumberFromZero ==
    /\ clicked' = "run"
    /\ Len(history) < MaxRuns
    /\ LET result == run_maestro_agent(orders)
       IN  /\ optimized_schedule' = Frame(result.optimized_df)
           /\ reasoning' = result.reasoning
           /\ history' = Append(history,
                  RunRecord(orders, result.optimized_df, Len(history)))
    /\ UNCHANGED <<orders, fn_in, fn_pc, fn_out>>

\* the run handler with the sort done in place on the session's orders
RunAgent_InPlace ==
    /\ clicked' = "run"
    /\ Len(history) < MaxRuns
    /\ LET result == run_maestro_agent(orders)
       IN  /\ optimized_schedule' = Frame(result.optimized_df)
           /\ reasoning' = result.reasoning
           /\ orders' = result.optimized_df
           /\ history' = Append(history,
                  RunRecord(orders, result.optimized_df, Len(history) + 1))
    /\ UNCHANGED <<fn_in, fn_pc, fn_out>>

\* "Run Production Maestro Agent"
RunAgent ==
    /\ clicked' = "run"
    /\ Len(history) < MaxRuns
    /\ LET result == run_maestro_agent(orders)
       IN  /\ optimized_schedule' = Frame(result.optimized_df)
           /\ reasoning' = result.reasoning
           /\ history' = Append(history,
                  RunRecord(orders, result.optimized_df, Len(history) + 1))
    /\ UNCHANGED <<orders, fn_in, fn_pc, fn_out>>

\* the generate handler without "history = []"
GenerateNewOrderList_KeepHistory ==
    /\ clicked' = "generate"
    /\ orders' \in get_production_orders
    /\ optimized_schedule' = NoneFrame
    /\ reasoning' = None
    /\ UNCHANGED <<history, fn_in, fn_pc, fn_out>>

\* the generate handler without "optimized_schedule = None"
GenerateNewOrderList_KeepSchedule ==
    /\ clicked' = "generate"
    /\ orders' \in get_production_orders
    /\ reasoning' = None
    /\ history' = <<>>
    /\ UNCHANGED <<optimized_schedule, fn_in, fn_pc, fn_out>>

\* the generate handler without "reasoning = None"
GenerateNewOrderList_KeepReasoning ==
    /\ clicked' = "generate"
    /\ orders' \in get_production_orders
    /\ optimized_schedule' = NoneFrame
    /\ history' = <<>>
    /\ UNCHANGED <<reasoning, fn_in, fn_pc, fn_out>>

\* "Generate New Order List"
GenerateNewOrderList ==
    /\ clicked' = "generate"
    /\ orders' \in get_production_orders
    /\ optimized_schedule' = NoneFrame
    /\ reasoning' = None
    /\ history' = <<>>
    /\ UNCHANGED <<fn_in, fn_pc, fn_out>>

Next == RunAgent \/ GenerateNewOrderList

Spec == Init /\ [][Next]_vars

----------------------------------------------------------------------------
(* The calculation functions applied on their own to any batch of up to    *)
(* MaxLen rows                                                             *)

FnInputs == UNION {OrderBatches(n) : n \in 0..MaxLen}

InitFn ==
    /\ FirstLoad(CHOOSE batch \in get_production_orders : TRUE)
    /\ fn_in \in FnInputs
    /\ fn_pc = "input"
    /\ fn_out = None

ApplyMetrics ==
    /\ fn_pc = "input"
    /\ fn_pc' = "calculate_schedule_metrics"
    /\ fn_out' = calculate_schedule_metrics(fn_in)
    /\ UNCHANGED <<fn_in, orders, optimized_schedule, reasoning, history, clicked>>

ApplyAgent ==
    /\ fn_pc = "input"
    /\ fn_pc' = "run_maestro_agent"
    /\ fn_out' = run_maestro_agent(fn_in)
    /\ UNCHANGED <<fn_in, orders, optimized_schedule, reasoning, history, clicked>>

ApplyImpact ==
    /\ fn_pc = "input"
    /\ fn_pc' = "impact"
    /\ fn_out' = TangibleBenefit(fn_in, run_maestro_agent(fn_in).optimized_df)
    /\ UNCHANGED <<fn_in, orders, optimized_schedule, reasoning, history, clicked>>

NextFn == ApplyMetrics \/ ApplyAgent \/ ApplyImpact

SpecFn == InitFn /\ [][NextFn]_vars

----------------------------------------------------------------------------
(* Vocabulary of the properties, defined without the program's functions *)

\* positions whose row differs in chassis type from the row before
Changeovers(df) ==
    Cardinality({i \in 2..Len(df) : df[i].Chassis_Type # df[i - 1].Chassis_Type})

DistinctTypes(df) ==
    Cardinality({df[i].Chassis_Type : i \in DOMAIN df})

RECURSIVE ColumnTotal(_, _)
ColumnTotal(df, col) ==
    IF Len(df) = 0 THEN 0
    ELSE ColumnTotal(SubSeq(df, 1, Len(df) - 1), col) + df[Len(df)][col]

GrandTotal(df) ==
    ColumnTotal(df, "Production_Time_Mins") + 60 * Changeovers(df)

\* a holds the rows of b, each exactly once
IsPermutationOf(a, b) ==
    /\ Len(a) = Len(b)
    /\ \E p \in Permutations(DOMAIN b) : \A i \in DOMAIN a : a[i] = b[p[i]]

\* where the order with this id stands in df
PositionOf(df, id) == CHOOSE k \in DOMAIN df : df[k].OrderID = id

\* the additional profit as section 4.4 of the specification derives it
StatedProfit(df, optimized_df) ==
    LET time_saved == GrandTotal(df) - GrandTotal(optimized_df)
        total_time == ColumnTotal(df, "Production_Time_Mins")
        units_per_minute ==
            IF total_time = 0 THEN RatOfInt(0)
            ELSE Rat(ColumnTotal(df, "Quantity"), total_time)
        additional_units == RatFloor(RatMul(RatOfInt(time_saved), units_per_minute))
        average_profit_per_unit == Rat(ColumnTotal(df, "Profit_Per_Unit"), Len(df))
        additional_profit == RatMul(RatOfInt(additional_units), average_profit_per_unit)
    IN  IF additional_profit.num > 0 THEN additional_profit ELSE RatOfInt(0)

----------------------------------------------------------------------------
(* Properties *)

\* C1: whatever the session state, a step of "Generate New Order List"
\* ends with the optimized schedule absent, the reasoning absent and the
\* run history empty.
C1_GenerateResets ==
    [][clicked' = "generate" =>
         /\ optimized_schedule' = NoneFrame
         /\ reasoning' = None
         /\ history' = <<>>]_vars

\* a generate step has acted (it may have followed agent runs) and left the
\* derived fields cleared
C1_Witness ==
    /\ clicked = "generate"
    /\ optimized_schedule = NoneFrame
    /\ reasoning = None
    /\ history = <<>>

\* C2: every run step appends exactly one record to the history, numbered
\* one more than the history's length before the step; the record at
\* position i has run number i; a generate step empties the history, so the
\* length counts the runs since the last generation.
C2_RunNumbering ==
    /\ [](\A i \in DOMAIN history : history[i].Run = i)
    /\ [][clicked' = "run" =>
             /\ Len(history') = Len(history) + 1
             /\ SubSeq(history', 1, Len(history)) = history
             /\ history'[Len(history')].Run = Len(history) + 1]_vars
    /\ [][clicked' = "generate" => Len(history') = 0]_vars

C2_Witness ==
    /\ clicked = "run"
    /\ Len(history) = 2
    /\ history[1].Run = 1
    /\ history[2].Run = 2

\* C5: every record of the history stores the unclamped difference of the
\* baseline and optimized grand totals as its time saved, and as its
\* additional profit max(0, floor(time_saved * units_per_minute) * mean
\* profit per unit) of the current batch.
C5_RecordedProfit ==
    \A i \in DOMAIN history :
        /\ history[i].Time_Saved_Mins =
               GrandTotal(orders) - GrandTotal(optimized_schedule.df)
        /\ history[i].Additional_Profit = StatedProfit(orders, optimized_schedule.df)

\* a run that saved a changeover and recorded a positive profit
C5_Witness ==
    /\ clicked = "run"
    /\ history # <<>>
    /\ history[Len(history)].Time_Saved_Mins = 60
    /\ history[Len(history)].Additional_Profit.num > 0

\* C6: a run that directly follows a run leaves the optimized schedule and
\* the reasoning as they were and appends a record with the next run number
\* and the same time saved and additional profit; the first run after a
\* generation is numbered 1; all records of the history agree on time saved
\* and additional profit.
C6_RunDeterministic ==
    /\ [](\A i, j \in DOMAIN history :
             /\ history[i].Time_Saved_Mins = history[j].Time_Saved_Mins
             /\ history[i].Additional_Profit = history[j].Additional_Profit)
    /\ [][(clicked = "run" /\ clicked' = "run") =>
             /\ optimized_schedule' = optimized_schedule
             /\ reasoning' = reasoning
             /\ Len(history') = Len(history) + 1
             /\ history'[Len(history')].Run = history[Len(history)].Run + 1
             /\ history'[Len(history')].Time_Saved_Mins =
                    history[Len(history)].Time_Saved_Mins
             /\ history'[Len(history')].Additional_Profit =
                    history[Len(history)].Additional_Profit]_vars
    /\ [][(clicked # "run" /\ clicked' = "run") =>
             /\ Len(history') = 1
             /\ history'[1].Run = 1]_vars

\* two runs on a batch the agent improves
C6_Witness ==
    /\ clicked = "run"
    /\ Len(history) = 2
    /\ history[1].Time_Saved_Mins = 60
    /\ history[2].Time_Saved_Mins = 60
    /\ optimized_schedule.df # orders

\* C9: the optimized schedule, when present, holds the rows of the current
\* batch, each exactly once; a run step leaves the batch as it was.
C9_ScheduleOfCurrentBatch ==
    /\ [](~optimized_schedule.is_none => IsPermutationOf(optimized_schedule.df, orders))
    /\ [][clicked' = "run" => orders' = orders]_vars

\* a run that re-sequenced the batch
C9_Witness ==
    /\ clicked = "run"
    /\ ~optimized_schedule.is_none
    /\ optimized_schedule.df # orders

\* C10: the optimized schedule is present exactly when the reasoning is
\* present, exactly when the history is non-empty.
C10_DerivedFieldsTogether ==
    /\ (~optimized_schedule.is_none) <=> (reasoning \notin {None, Missing})
    /\ (~optimized_schedule.is_none) <=> (history # <<>>)

C10_Witness ==
    /\ ~optimized_schedule.is_none
    /\ reasoning = ReasoningText
    /\ Len(history) = 2

\* C3: for a batch of at least two orders and at least two chassis types
\* the agent's schedule has setup time (distinct types - 1) * 60, and no
\* permutation of the batch has a smaller setup time.
C3_MinimalSetup ==
    (fn_pc = "run_maestro_agent" /\ Len(fn_in) >= 2 /\ DistinctTypes(fn_in) >= 2) =>
        LET achieved == calculate_schedule_metrics(fn_out.optimized_df).setup_time
        IN  /\ achieved = (DistinctTypes(fn_in) - 1) * 60
            /\ \A p \in Permutations(DOMAIN fn_in) :
                   calculate_schedule_metrics(
                       [i \in DOMAIN fn_in |-> fn_in[p[i]]]).setup_time >= achieved

\* a batch whose generation order costs more setup than the agent's
C3_Witness ==
    /\ fn_pc = "run_maestro_agent"
    /\ Len(fn_in) = 3
    /\ DistinctTypes(fn_in) = 2
    /\ calculate_schedule_metrics(fn_in).setup_time = 120
    /\ calculate_schedule_metrics(fn_out.optimized_df).setup_time = 60

\* C4: the agent's schedule is in non-decreasing chassis-type order, and two
\* orders of the same chassis type stand in it in the order they had in the
\* batch.
C4_StableSort ==
    fn_pc = "run_maestro_agent" =>
        LET out == fn_out.optimized_df
        IN  /\ Len(out) = Len(fn_in)
            /\ \A i \in DOMAIN fn_in : \E k \in DOMAIN out : out[k] = fn_in[i]
            /\ \A k \in 1..(Len(out) - 1) :
                   ChassisRank(out[k].Chassis_Type) <= ChassisRank(out[k + 1].Chassis_Type)
            /\ \A i, j \in DOMAIN fn_in :
                   (i < j /\ fn_in[i].Chassis_Type = fn_in[j].Chassis_Type) =>
                       PositionOf(out, fn_in[i].OrderID) < PositionOf(out, fn_in[j].OrderID)

\* two orders of one type with an order of an earlier type between them
C4_Witness ==
    /\ fn_pc = "run_maestro_agent"
    /\ Len(fn_in) = 3
    /\ fn_in[1].Chassis_Type = "Office Mini"
    /\ fn_in[2].Chassis_Type = "Gaming Tower"
    /\ fn_in[3].Chassis_Type = "Office Mini"
    /\ fn_out.optimized_df = <<fn_in[2], fn_in[1], fn_in[3]>>

====
